---- MODULE Spec2Model ----
(***************************************************************************)
(* Booking bot: the SQLite store (db.py), the request handlers and the     *)
(* reminder worker (main.py), and the time conversion (utils.py).          *)
(*                                                                         *)
(* Time is counted in seconds from an arbitrary UTC midnight (day 0).      *)
(* A slot's slot_utc is the canonical "+00:00" ISO text local_to_utc_iso   *)
(* produces; it is represented by the instant it denotes (the text and     *)
(* the instant determine each other, so text equality is instant           *)
(* equality).                                                              *)
(*                                                                         *)
(* Every Database method opens a connection of its own.  A write           *)
(* (execute + commit) holds SQLite's write lock from the statement to the  *)
(* commit and is invisible to other connections until the commit, so it    *)
(* is one atomic step; the SELECT that follows it is a separate step.      *)
(***************************************************************************)
EXTENDS Integers, Sequences, FiniteSets, TLC

(***************************************************************************)
(* Bounds of the model.                                                    *)
(***************************************************************************)
\* cap on the slots AUTOINCREMENT counter (every add_slot call uses one id)
MaxSlotId == 2
\* the clock stops advancing after this many ticks
MaxTicks == 4
\* upsert_user statements run (each takes a value of the users id counter)
MaxUserSeq == 3

(***************************************************************************)
(* Program constants.                                                      *)
(***************************************************************************)
\* asyncio.sleep(60) of reminder_worker
PollSeconds == 60
\* timedelta(seconds=60) of find_bookings_for_reminder
WindowSeconds == 60
\* r["reminder_hours_before"] or 2
DefaultReminderHours == 2
\* timedelta(hours=1)
SecondsPerHour == 3600
SecondsPerDay == 86400
\* UTC offset of the default zone Europe/Moscow
TzOffsetSeconds == 10800
\* Europe/Berlin in 2024, day 0 being 2024-03-30: summer time from
\* 2024-03-31 01:00 UTC until 2024-10-27 01:00 UTC
DstStartUtc == 90000
DstEndUtc == 18234000
\* Optional[...] None / SQL NULL
NULL == -1000

\* the request handler tasks that may run concurrently
Procs == {1, 2}

VARIABLES
    users,          \* table users: set of rows
    seqUsers,       \* sqlite_sequence of users (AUTOINCREMENT)
    slots,          \* table slots: set of rows
    bookings,       \* table bookings: set of rows
    seqSlots,       \* sqlite_sequence of slots (AUTOINCREMENT)
    seqBookings,    \* sqlite_sequence of bookings
    pc,             \* pc[p]: where handler task p stands
    loc,            \* loc[p]: the locals of handler task p
    res,            \* res[p]: what the last handler run by task p did (history)
    clock,          \* the wall clock, datetime.now(timezone.utc)
    timezone,       \* settings.timezone, fixed when the process starts
    w_pc,           \* reminder_worker: position
    w_now,          \* reminder_worker: now_utc of the current cycle
    w_cands,        \* reminder_worker: candidates not yet processed
    w_cur,          \* reminder_worker: booking_id being processed (0: none)
    w_wake,         \* reminder_worker: earliest instant asyncio.sleep(60) returns
    w_found,        \* history: booking ids the latest find returned
    w_failed,       \* history: booking ids whose send failed in this cycle
    w_failedPrev,   \* history: booking ids whose send failed in the cycle before
    dispatched,     \* history: dispatched[b] = notifier calls made for booking b
    delivered,      \* history: delivered[b] = notifier calls that succeeded
    w_log,          \* history: the calls whose exception this cycle logged
    w_logPrev       \* history: the same for the cycle before

storeVars == <<users, seqUsers, slots, bookings, seqSlots, seqBookings>>
procVars == <<pc, loc, res>>
workerVars == <<w_pc, w_now, w_cands, w_cur, w_wake, w_found, w_failed,
                w_failedPrev, dispatched, delivered, w_log, w_logPrev>>
vars == <<users, seqUsers, slots, bookings, seqSlots, seqBookings, pc, loc, res,
          clock, timezone,
          w_pc, w_now, w_cands, w_cur, w_wake, w_found, w_failed,
          w_failedPrev, dispatched, delivered, w_log, w_logPrev>>

(***************************************************************************)
(* Inputs.                                                                 *)
(***************************************************************************)
\* Telegram user ids that send requests; 103 never shared a contact
TgUsers == {101, 102, 103}
\* local wall-clock minutes an administrator passes to /addslot:
\* day 0 05:01 and 05:02 (Europe/Moscow), i.e. 02:01 and 02:02 UTC
LocalInputs == {18060, 18120}
\* guests field of the confirm_booking callback data
GuestsInputs == {1}
\* reminder field of the confirm_booking callback data (text)
HoursTokens == {"2"}
\* the same field in the runs of the reminder worker: no reminder ("0"),
\* two hours, and a zero that is not spelled "0"
ReminderTokens == {"0", "00", "2"}
\* settings.admin_ids
AdminIds == {103}
\* message.chat.id: the private chat of the user or another chat
ChatInputs(tg) == {tg, 900}
\* message.contact.phone_number
PhoneInputs == {7}
\* the clock advances in steps of thirty seconds
TickSteps == {30}

\* the instants, within the minute, at which the process may start
StartClocks == {0, 30}

BookingIds == 1 .. MaxSlotId

(***************************************************************************)
(* utils.py                                                                *)
(***************************************************************************)
\* pytz.timezone(tz_name): the zones the process may be configured with
Zones == {"Europe/Moscow", "Europe/Berlin"}

\* the offsets of a zone in standard and in summer time
StdOffset(tz) == IF tz = "Europe/Berlin" THEN SecondsPerHour ELSE TzOffsetSeconds
DstOffset(tz) == IF tz = "Europe/Berlin" THEN 2 * SecondsPerHour ELSE TzOffsetSeconds

\* the UTC offset of zone tz at the UTC instant u (astimezone)
utcoffset(tz, u) ==
    IF DstOffset(tz) # StdOffset(tz) /\ DstStartUtc <= u /\ u < DstEndUtc
    THEN DstOffset(tz)
    ELSE StdOffset(tz)

\* mutant: the standard offset all year
localize_std(l, tz) == l - StdOffset(tz)

\* tz.localize(naive) with is_dst=False, as a UTC instant: the offset under
\* which the wall-clock time exists; the standard one when it exists under
\* both (end of summer time) or under none (the skipped hour)
localize(l, tz) ==
    LET possible == {o \in {StdOffset(tz), DstOffset(tz)} :
                       utcoffset(tz, l - o) = o}
    IN  IF possible = {DstOffset(tz)}
        THEN l - DstOffset(tz)
        ELSE l - StdOffset(tz)

\* local_to_utc_iso: a naive local minute, localized, as a UTC instant
local_to_utc_iso(l) == localize(l, timezone)

\* mutant: the date and time of the UTC text itself
utc_iso_to_utc_str(u) ==
    <<u \div SecondsPerDay, (u % SecondsPerDay) \div 60>>

\* utc_iso_to_local_str: <<local date (day number), local HH:MM (minute of day)>>
utc_iso_to_local_str(u) ==
    LET local == u + utcoffset(timezone, u) IN
      <<local \div SecondsPerDay, (local % SecondsPerDay) \div 60>>

\* the loop of unique_sorted_dates_local: the local dates of utc_isos[i..],
\* each appended to dates unless seen
RECURSIVE UniqueDates(_, _, _)
UniqueDates(utc_isos, i, dates) ==
    IF i > Len(utc_isos)
    THEN dates
    ELSE LET d == utc_iso_to_local_str(utc_isos[i])[1] IN
           UniqueDates(utc_isos, i + 1,
                       IF \E k \in 1 .. Len(dates) : dates[k] = d
                       THEN dates
                       ELSE Append(dates, d))

\* mutant: every date is appended, seen or not
sorted_dates_local(utc_isos) ==
    SortSeq([i \in 1 .. Len(utc_isos) |-> utc_iso_to_local_str(utc_isos[i])[1]],
            LAMBDA a, b : a < b)

\* unique_sorted_dates_local: the dates of the loop, then dates.sort()
unique_sorted_dates_local(utc_isos) ==
    SortSeq(UniqueDates(utc_isos, 1, <<>>), LAMBDA a, b : a < b)

(***************************************************************************)
(* db.py: the tables and their constraints.                                *)
(***************************************************************************)
SlotIds(S) == {s.id : s \in S}

\* the row of table T with primary key i
RowById(T, i) == CHOOSE r \in T : r.id = i

\* mutant: the insert without UNIQUE(slot_utc)
InsertSlotAlways(t) ==
    slots \cup {[id |-> seqSlots + 1, slot_utc |-> t]}

\* INSERT OR IGNORE INTO slots: UNIQUE(slot_utc) makes the insert a no-op
\* when a slot at that instant exists
InsertOrIgnoreSlot(t) ==
    IF \E s \in slots : s.slot_utc = t
    THEN slots
    ELSE slots \cup {[id |-> seqSlots + 1, slot_utc |-> t]}

\* DELETE FROM slots WHERE id = ?
DeleteSlotRows(i) == {s \in slots : s.id # i}

\* mutant: a connection without PRAGMA foreign_keys = ON does not cascade
CascadeOff(i) == bookings

\* bookings.slot_id REFERENCES slots(id) ON DELETE CASCADE, with
\* PRAGMA foreign_keys = ON (connect): the rows left after deleting slot i
CascadeBookings(i) == {b \in bookings : b.slot_id # i}

\* mutant: bookings.slot_id without UNIQUE
BookingInsertErrorNoUnique(user_id, slot_id) ==
    IF slot_id \notin SlotIds(slots) \/ user_id \notin {u.id : u \in users}
    THEN "FOREIGN KEY"
    ELSE "none"

\* the constraint an INSERT INTO bookings violates ("none": it is inserted)
BookingInsertError(user_id, slot_id) ==
    IF \E b \in bookings : b.slot_id = slot_id THEN "UNIQUE"
    ELSE IF slot_id \notin SlotIds(slots) \/ user_id \notin {u.id : u \in users}
         THEN "FOREIGN KEY"
         ELSE "none"

\* the row INSERT INTO bookings writes (the other columns take their defaults)
NewBooking(user_id, slot_id, guests_count, reminder_hours_before, reminder_enabled) ==
    [id |-> seqBookings + 1, user_id |-> user_id, slot_id |-> slot_id,
     created_at |-> clock, reminder_sent |-> 0, status |-> "booked",
     guests_count |-> guests_count,
     reminder_hours_before |-> reminder_hours_before,
     reminder_enabled |-> reminder_enabled]

\* mutant: the INSERT without ON CONFLICT(tg_user_id) and without UNIQUE
InsertUserAlways(tg_user_id, chat_id, is_admin) ==
    users \cup {[id |-> seqUsers + 1, tg_user_id |-> tg_user_id,
                 chat_id |-> chat_id, phone |-> NULL, is_admin |-> is_admin,
                 created_at |-> clock]}

\* mutant: INSERT OR REPLACE, the row of the Telegram id is written anew
UpsertUserReplace(tg_user_id, chat_id, is_admin) ==
    {u \in users : u.tg_user_id # tg_user_id}
    \cup {[id |-> seqUsers + 1, tg_user_id |-> tg_user_id,
            chat_id |-> chat_id, phone |-> NULL, is_admin |-> is_admin,
            created_at |-> clock]}

\* INSERT INTO users ... ON CONFLICT(tg_user_id) DO UPDATE SET chat_id,
\* full_name, is_admin: the rows of users after the statement; a new row
\* takes the defaults of phone (NULL) and created_at (now)
UpsertUserRows(tg_user_id, chat_id, is_admin) ==
    IF \E u \in users : u.tg_user_id = tg_user_id
    THEN {IF u.tg_user_id = tg_user_id
          THEN [u EXCEPT !.chat_id = chat_id, !.is_admin = is_admin]
          ELSE u : u \in users}
    ELSE users \cup {[id |-> seqUsers + 1, tg_user_id |-> tg_user_id,
                      chat_id |-> chat_id, phone |-> NULL, is_admin |-> is_admin,
                      created_at |-> clock]}

\* set_user_phone: UPDATE users SET phone = ? WHERE tg_user_id = ?
set_user_phone(tg_user_id, phone) ==
    {IF u.tg_user_id = tg_user_id THEN [u EXCEPT !.phone = phone] ELSE u :
        u \in users}

\* get_user_by_tg: the set holding the row, or the empty set (None)
get_user_by_tg(tg) == {u \in users : u.tg_user_id = tg}

\* list_slots(): the ids of all slots
list_slots == SlotIds(slots)

\* list_free_slots as a set: slots no booking references, from since on
FreeSlots(since) ==
    {s \in slots : /\ ~ \E b \in bookings : b.slot_id = s.id
                   /\ (since = NULL \/ s.slot_utc >= since)}

\* slots s LEFT JOIN bookings b ON b.slot_id = s.id: one row per slot and
\* booking of it, and one row with b.id NULL per slot without a booking
LeftJoinBookings ==
    {[s |-> x[1], b_id |-> x[2].id] :
        x \in {y \in slots \X bookings : y[2].slot_id = y[1].id}}
    \cup {[s |-> x, b_id |-> NULL] :
        x \in {y \in slots : \A b \in bookings : b.slot_id # y.id}}

\* since_utc_iso: datetime.now(timezone.utc).isoformat(), the second and
\* its fraction (thousandths), or None
NoSince == [sec |-> NULL, frac |-> 0]

\* s.slot_utc >= ? on TEXT: both texts are "YYYY-MM-DDTHH:MM:SS" followed by
\* "+00:00" (slot_utc, and a since on a whole second) or by ".ffffff+00:00";
\* with equal seconds "+" sorts before "."
IsoTextGE(slot_utc, since) ==
    \/ slot_utc > since.sec
    \/ slot_utc = since.sec /\ since.frac = 0

\* ORDER BY s.slot_utc ASC: the joined rows R as a sequence
OrderBySlotUtc(R) ==
    CHOOSE q \in [1 .. Cardinality(R) -> R] :
        /\ \A r \in R : \E i \in 1 .. Cardinality(R) : q[i] = r
        /\ \A i, j \in 1 .. Cardinality(R) :
              i < j => q[i].s.slot_utc <= q[j].s.slot_utc

\* mutant: the query without WHERE b.id IS NULL
list_joined_slots(since) ==
    LET R == {r \in LeftJoinBookings :
                since.sec = NULL \/ IsoTextGE(r.s.slot_utc, since)}
        q == OrderBySlotUtc(R)
    IN  [i \in 1 .. Cardinality(R) |-> q[i].s]

\* list_free_slots(since_utc_iso): the slot rows of the query, in its order
list_free_slots(since) ==
    LET R == {r \in LeftJoinBookings :
                /\ r.b_id = NULL
                /\ (since.sec = NULL \/ IsoTextGE(r.s.slot_utc, since))}
        q == OrderBySlotUtc(R)
    IN  [i \in 1 .. Cardinality(R) |-> q[i].s]

\* list_bookings(): bookings JOIN users JOIN slots, as a set of booking rows
list_bookings ==
    {b \in bookings : /\ \E u \in users : u.id = b.user_id
                      /\ \E s \in slots : s.id = b.slot_id}

\* list_dates_keyboard(): the free slots from now on (frac: the fraction of
\* the second of now), their local dates; None when no slot is free
list_dates_keyboard(frac) ==
    LET free == list_free_slots([sec |-> clock, frac |-> frac]) IN
      IF Len(free) = 0
      THEN [text |-> "none", dates |-> NULL]
      ELSE [text |-> "choose",
            dates |-> unique_sorted_dates_local(
                         [i \in 1 .. Len(free) |-> free[i].slot_utc])]

\* list_times_keyboard(date_local): of all free slots those whose local
\* date is date_local, as <<slot id, local HH:MM>> pairs sorted by the
\* time; None when there is none
list_times_keyboard(date_local) ==
    LET free == list_free_slots(NoSince)
        sel == SelectSeq(free,
                 LAMBDA x : utc_iso_to_local_str(x.slot_utc)[1] = date_local)
        pairs == [i \in 1 .. Len(sel) |->
                    <<sel[i].id, utc_iso_to_local_str(sel[i].slot_utc)[2]>>]
    IN  IF Len(pairs) = 0
        THEN [text |-> "none", pairs |-> NULL]
        ELSE [text |-> "times",
              pairs |-> SortSeq(pairs, LAMBDA a, b : a[2] < b[2])]

(***************************************************************************)
(* Handler tasks.                                                          *)
(***************************************************************************)
NoLoc == [h |-> "none", a |-> 0, u |-> 0, g |-> 0, rh |-> NULL,
          pre |-> 0, exc |-> "none", ret |-> 0, d |-> 0]
\* res[p].pre is what the handler met when it started: the id of the slot
\* already at the instant (addslot), the number of bookings of the slot
\* (delslot), 1 when the slot existed and was free (confirm)
\* res[p].shown is the list of times the handler put into the message it
\* edited, as list_times_keyboard returned it
NoShown == [text |-> "nothing", pairs |-> NULL]
NoRes == [h |-> "none", a |-> 0, out |-> "none", exc |-> "none", ret |-> 0,
          pre |-> 0, shown |-> NoShown]

\* handler task p returns: its outcome is recorded
Finish(p, out) ==
    /\ pc' = [pc EXCEPT ![p] = "idle"]
    /\ res' = [res EXCEPT ![p] =
                 [h |-> loc[p].h, a |-> loc[p].a, out |-> out,
                  exc |-> loc[p].exc, ret |-> loc[p].ret, pre |-> loc[p].pre,
                  shown |-> NoShown]]
    /\ loc' = [loc EXCEPT ![p] = NoLoc]

\* on_start / on_contact, ensure_user_record: upsert_user's INSERT ... ON
\* CONFLICT and commit. The id counter advances even on a conflict.
\* loc[p].g holds the phone number of the contact message.
EnsureUserInsert(p, h, tg, chat, phone) ==
    /\ pc[p] = "idle"
    /\ seqUsers < MaxUserSeq
    /\ users' = UpsertUserRows(tg, chat, IF tg \in AdminIds THEN 1 ELSE 0)
    /\ seqUsers' = seqUsers + 1
    /\ pc' = [pc EXCEPT ![p] = "uu_select"]
    /\ loc' = [loc EXCEPT ![p] =
                 [NoLoc EXCEPT !.h = h, !.a = tg,
                    !.g = IF h = "contact" THEN phone ELSE 0,
                    !.pre = IF \E u \in users : u.tg_user_id = tg
                            THEN (CHOOSE u \in users : u.tg_user_id = tg).id
                            ELSE 0]]
    /\ res' = [res EXCEPT ![p] = NoRes]
    /\ UNCHANGED <<slots, bookings, seqSlots, seqBookings, clock, timezone, workerVars>>

\* upsert_user, second step: SELECT id FROM users WHERE tg_user_id = ?;
\* on_start then only reads, on_contact goes on to set_user_phone
EnsureUserSelect(p) ==
    /\ pc[p] = "uu_select"
    /\ LET rows == {u \in users : u.tg_user_id = loc[p].a} IN
         IF rows = {}
         THEN /\ pc' = [pc EXCEPT ![p] = "idle"]
              /\ res' = [res EXCEPT ![p] =
                           [NoRes EXCEPT !.h = loc[p].h, !.a = loc[p].a,
                              !.out = "error", !.exc = "TypeError",
                              !.pre = loc[p].pre]]
              /\ loc' = [loc EXCEPT ![p] = NoLoc]
         ELSE IF loc[p].h = "contact"
              THEN /\ pc' = [pc EXCEPT ![p] = "set_phone"]
                   /\ loc' = [loc EXCEPT ![p].ret = (CHOOSE u \in rows : TRUE).id]
                   /\ res' = res
              ELSE /\ pc' = [pc EXCEPT ![p] = "idle"]
                   /\ res' = [res EXCEPT ![p] =
                                [NoRes EXCEPT !.h = loc[p].h, !.a = loc[p].a,
                                   !.out = "user",
                                   !.ret = (CHOOSE u \in rows : TRUE).id,
                                   !.pre = loc[p].pre]]
                   /\ loc' = [loc EXCEPT ![p] = NoLoc]
    /\ UNCHANGED <<storeVars, clock, timezone, workerVars>>

\* on_contact: set_user_phone with the number of the contact message
SetUserPhone(p) ==
    /\ pc[p] = "set_phone"
    /\ users' = set_user_phone(loc[p].a, loc[p].g)
    /\ Finish(p, "user")
    /\ UNCHANGED <<seqUsers, slots, bookings, seqSlots, seqBookings, clock, timezone,
                   workerVars>>

\* cmd_addslot, first step: add_slot's INSERT OR IGNORE and commit.
\* The id counter advances even when the insert is ignored.
AddSlotInsert(p, l) ==
    LET t == local_to_utc_iso(l) IN
    /\ pc[p] = "idle"
    /\ seqSlots < MaxSlotId
    /\ slots' = InsertOrIgnoreSlot(t)
    /\ seqSlots' = seqSlots + 1
    /\ pc' = [pc EXCEPT ![p] = "as_select"]
    /\ loc' = [loc EXCEPT ![p] =
                 [NoLoc EXCEPT !.h = "addslot", !.a = t,
                    !.pre = IF \E s \in slots : s.slot_utc = t
                            THEN (CHOOSE s \in slots : s.slot_utc = t).id
                            ELSE 0]]
    /\ res' = [res EXCEPT ![p] = NoRes]
    /\ UNCHANGED <<users, seqUsers, bookings, seqBookings, clock, timezone, workerVars>>

\* cmd_addslot, second step: SELECT id FROM slots WHERE slot_utc = ?;
\* int(row[0]) raises TypeError when the row is gone
AddSlotSelect(p) ==
    /\ pc[p] = "as_select"
    /\ LET rows == {s \in slots : s.slot_utc = loc[p].a} IN
         IF rows = {}
         THEN /\ pc' = [pc EXCEPT ![p] = "idle"]
              /\ res' = [res EXCEPT ![p] =
                           [NoRes EXCEPT !.h = "addslot", !.a = loc[p].a,
                              !.out = "error", !.exc = "TypeError",
                              !.pre = loc[p].pre]]
              /\ loc' = [loc EXCEPT ![p] = NoLoc]
         ELSE /\ pc' = [pc EXCEPT ![p] = "idle"]
              /\ res' = [res EXCEPT ![p] =
                           [NoRes EXCEPT !.h = "addslot", !.a = loc[p].a,
                              !.out = "added",
                              !.ret = (CHOOSE s \in rows : TRUE).id,
                              !.pre = loc[p].pre]]
              /\ loc' = [loc EXCEPT ![p] = NoLoc]
    /\ UNCHANGED <<storeVars, clock, timezone, workerVars>>

\* cmd_delslot: delete_slot's DELETE and commit; returns cur.rowcount
DelSlot(p, i) ==
    /\ pc[p] = "idle"
    /\ slots' = DeleteSlotRows(i)
    /\ bookings' = CascadeBookings(i)
    /\ pc' = pc
    /\ loc' = loc
    /\ res' = [res EXCEPT ![p] =
                 [NoRes EXCEPT !.h = "delslot", !.a = i,
                    !.out = IF i \in SlotIds(slots) THEN "deleted" ELSE "notfound",
                    !.ret = Cardinality(slots) - Cardinality(DeleteSlotRows(i)),
                    !.pre = Cardinality({b \in bookings : b.slot_id = i})]]
    /\ UNCHANGED <<users, seqUsers, seqSlots, seqBookings, clock, timezone, workerVars>>

\* int(parts[3]): the number a reminder field denotes
int(tok) ==
    CASE tok = "0" -> 0
      [] tok = "00" -> 0
      [] tok = "1" -> 1
      [] tok = "2" -> 2
      [] tok = "-1" -> -1

\* reminder_hours = int(parts[3]) if parts[3] != "0" else None
ParseReminderHours(tok) == IF tok # "0" THEN int(tok) ELSE NULL

\* reminder_enabled = 1 if reminder_hours is not None else 0
ReminderEnabledArg(reminder_hours) == IF reminder_hours # NULL THEN 1 ELSE 0

\* mutant: a caller with a row is let through, with a phone or without
ConfirmGetUserAnyPhone(p, tg, slot_id, guests_count, tok) ==
    /\ pc[p] = "idle"
    /\ LET user == get_user_by_tg(tg) IN
         IF user = {}
         THEN /\ pc' = pc
              /\ loc' = loc
              /\ res' = [res EXCEPT ![p] =
                           [NoRes EXCEPT !.h = "confirm", !.out = "nophone"]]
         ELSE /\ pc' = [pc EXCEPT ![p] = "cb_insert"]
              /\ loc' = [loc EXCEPT ![p] =
                           [NoLoc EXCEPT !.h = "confirm", !.a = slot_id,
                              !.u = (CHOOSE u \in user : TRUE).id,
                              !.g = guests_count,
                              !.rh = ParseReminderHours(tok),
                              !.pre = IF \E s \in FreeSlots(NULL) : s.id = slot_id
                                      THEN 1 ELSE 0]]
              /\ res' = [res EXCEPT ![p] = NoRes]
    /\ UNCHANGED <<storeVars, clock, timezone, workerVars>>

\* on_confirm_booking, first step: the callback data is parsed, then
\* get_user_by_tg; a caller without a row or without a phone is turned away
ConfirmGetUser(p, tg, slot_id, guests_count, tok) ==
    /\ pc[p] = "idle"
    /\ LET user == get_user_by_tg(tg) IN
         IF user = {} \/ (CHOOSE u \in user : TRUE).phone = NULL
         THEN /\ pc' = pc
              /\ loc' = loc
              /\ res' = [res EXCEPT ![p] =
                           [NoRes EXCEPT !.h = "confirm", !.out = "nophone"]]
         ELSE /\ pc' = [pc EXCEPT ![p] = "cb_insert"]
              /\ loc' = [loc EXCEPT ![p] =
                           [NoLoc EXCEPT !.h = "confirm", !.a = slot_id,
                              !.u = (CHOOSE u \in user : TRUE).id,
                              !.g = guests_count,
                              !.rh = ParseReminderHours(tok),
                              !.pre = IF \E s \in FreeSlots(NULL) : s.id = slot_id
                                      THEN 1 ELSE 0]]
              /\ res' = [res EXCEPT ![p] = NoRes]
    /\ UNCHANGED <<storeVars, clock, timezone, workerVars>>

\* on_confirm_booking, create_booking's INSERT and commit; a violated
\* constraint raises IntegrityError and nothing is written
ConfirmInsert(p) ==
    /\ pc[p] = "cb_insert"
    /\ LET err == BookingInsertError(loc[p].u, loc[p].a) IN
         IF err = "none"
         THEN /\ bookings' = bookings \cup
                     {NewBooking(loc[p].u, loc[p].a, loc[p].g, loc[p].rh,
                                 ReminderEnabledArg(loc[p].rh))}
              /\ seqBookings' = seqBookings + 1
              /\ pc' = [pc EXCEPT ![p] = "cb_select"]
              /\ loc' = loc
         ELSE /\ bookings' = bookings
              /\ seqBookings' = seqBookings
              /\ pc' = [pc EXCEPT ![p] = "cb_except"]
              /\ loc' = [loc EXCEPT ![p].exc = err]
    /\ UNCHANGED <<users, seqUsers, slots, seqSlots, res, clock, timezone, workerVars>>

\* on_confirm_booking, create_booking's SELECT id FROM bookings WHERE
\* user_id = ? AND slot_id = ?; int(row[0]) raises TypeError without a row
ConfirmSelect(p) ==
    /\ pc[p] = "cb_select"
    /\ LET rows == {b \in bookings : b.user_id = loc[p].u /\ b.slot_id = loc[p].a} IN
         IF rows = {}
         THEN /\ pc' = [pc EXCEPT ![p] = "cb_except"]
              /\ loc' = [loc EXCEPT ![p].exc = "TypeError"]
         ELSE /\ pc' = [pc EXCEPT ![p] = "cb_ok"]
              /\ loc' = [loc EXCEPT ![p].ret = (CHOOSE b \in rows : TRUE).id]
    /\ UNCHANGED <<storeVars, res, clock, timezone, workerVars>>

\* on_confirm_booking, except branch: "slot just taken" is answered whatever
\* was raised, then list_slots() looks the slot up to find its local date
ConfirmExceptListSlots(p) ==
    /\ pc[p] = "cb_except"
    /\ IF loc[p].a \in list_slots
       THEN /\ pc' = [pc EXCEPT ![p] = "cb_relist"]
            /\ loc' = [loc EXCEPT ![p].d =
                         utc_iso_to_local_str(RowById(slots, loc[p].a).slot_utc)[1]]
            /\ res' = res
       ELSE Finish(p, "taken")
    /\ UNCHANGED <<storeVars, clock, timezone, workerVars>>

\* on_confirm_booking, except branch: the times of that date are listed again
ConfirmRelist(p) ==
    /\ pc[p] = "cb_relist"
    /\ pc' = [pc EXCEPT ![p] = "idle"]
    /\ res' = [res EXCEPT ![p] =
                 [NoRes EXCEPT !.h = loc[p].h, !.a = loc[p].a, !.out = "taken",
                    !.exc = loc[p].exc, !.ret = loc[p].ret, !.pre = loc[p].pre,
                    !.shown = list_times_keyboard(loc[p].d)]]
    /\ loc' = [loc EXCEPT ![p] = NoLoc]
    /\ UNCHANGED <<storeVars, clock, timezone, workerVars>>

\* on_confirm_booking, success branch: list_slots() loads the slot for the
\* confirmation text; without it a generic error is answered
ConfirmOkListSlots(p) ==
    /\ pc[p] = "cb_ok"
    /\ IF loc[p].a \in list_slots
       THEN Finish(p, "confirmed")
       ELSE Finish(p, "error")
    /\ UNCHANGED <<storeVars, clock, timezone, workerVars>>

(***************************************************************************)
(* db.py: reminders.                                                       *)
(***************************************************************************)
\* reminder_hours = r["reminder_hours_before"] or 2
ReminderHoursOr(h) == IF h = NULL \/ h = 0 THEN DefaultReminderHours ELSE h

\* mutant: catch-up, every booking whose window has opened is due
InReminderWindowOrLater(now_utc, reminder_hours, slot_time) ==
    slot_time < now_utc + reminder_hours * SecondsPerHour + WindowSeconds

\* lower <= slot_time < upper of find_bookings_for_reminder
InReminderWindow(now_utc, reminder_hours, slot_time) ==
    LET lower == now_utc + reminder_hours * SecondsPerHour
        upper == lower + WindowSeconds
    IN  lower <= slot_time /\ slot_time < upper

\* find_bookings_for_reminder(now_utc): the booking ids of the rows returned
find_bookings_for_reminder(now_utc) ==
    {b.id : b \in
        {r \in bookings :
            /\ r.reminder_sent = 0
            /\ r.reminder_enabled = 1
            /\ r.status = "booked"
            /\ \E u \in users : u.id = r.user_id
            /\ \E s \in slots : s.id = r.slot_id
            /\ InReminderWindow(now_utc, ReminderHoursOr(r.reminder_hours_before),
                                RowById(slots, r.slot_id).slot_utc)}}

\* mutant: the UPDATE is lost
mark_reminder_lost(booking_id) == bookings

\* mutant: the UPDATE flips the flag
UpdateReminderFlip(B, booking_id) ==
    {IF b.id = booking_id THEN [b EXCEPT !.reminder_sent = 1 - @] ELSE b :
        b \in B}

\* UPDATE bookings SET reminder_sent = 1 WHERE id = ?, on the rows B
UpdateReminderSent(B, booking_id) ==
    {IF b.id = booking_id THEN [b EXCEPT !.reminder_sent = 1] ELSE b :
        b \in B}

\* mark_reminder_sent: the UPDATE on table bookings, committed
mark_reminder_sent(booking_id) == UpdateReminderSent(bookings, booking_id)

(***************************************************************************)
(* main.py: reminder_worker.                                               *)
(***************************************************************************)
\* mutant: the loop goes on without sleeping
EndCycleNoSleep ==
    /\ w_pc' = "sleeping"
    /\ w_wake' = clock

\* the loop body is over: asyncio.sleep(60) starts at the current clock
EndCycle ==
    /\ w_pc' = "sleeping"
    /\ w_wake' = clock + PollSeconds

\* asyncio.sleep(60) returns, not before 60 s have passed, and the next
\* cycle reads the clock: now_utc = datetime.now(timezone.utc)
WorkerNow ==
    /\ w_pc = "sleeping"
    /\ clock >= w_wake
    /\ w_pc' = "find"
    /\ w_now' = clock
    /\ UNCHANGED <<storeVars, procVars, clock, timezone, w_cands, w_cur, w_wake, w_found,
                   w_failed, w_failedPrev, dispatched, delivered, w_log,
                   w_logPrev>>

\* candidates = await db.find_bookings_for_reminder(now_utc)
WorkerFind ==
    /\ w_pc = "find"
    /\ w_cands' = find_bookings_for_reminder(w_now)
    /\ w_found' = find_bookings_for_reminder(w_now)
    /\ w_failedPrev' = w_failed
    /\ w_failed' = {}
    /\ w_logPrev' = w_log
    /\ w_log' = {}
    /\ IF find_bookings_for_reminder(w_now) = {}
       THEN EndCycle
       ELSE w_pc' = "send" /\ w_wake' = w_wake
    /\ UNCHANGED <<storeVars, procVars, clock, timezone, w_now, w_cur, dispatched, delivered>>

\* mutant: mark_reminder_sent is called whether or not the send returned
WorkerSendThenMark(b, ok) ==
    /\ w_pc = "send"
    /\ b \in w_cands
    /\ w_cands' = w_cands \ {b}
    /\ dispatched' = [dispatched EXCEPT ![b] = @ + 1]
    /\ delivered' = IF ok THEN [delivered EXCEPT ![b] = @ + 1] ELSE delivered
    /\ w_cur' = b
    /\ w_pc' = "mark"
    /\ w_failed' = IF ok THEN w_failed ELSE w_failed \cup {b}
    /\ w_log' = IF ok THEN w_log ELSE w_log \cup {"send"}
    /\ UNCHANGED <<storeVars, procVars, clock, timezone, w_now, w_wake, w_found,
                   w_failedPrev, w_logPrev>>

\* bot.send_message for the next candidate: it returns, or it raises and
\* the failure is logged (the rows come in no stated order)
WorkerSend(b, ok) ==
    /\ w_pc = "send"
    /\ b \in w_cands
    /\ w_cands' = w_cands \ {b}
    /\ dispatched' = [dispatched EXCEPT ![b] = @ + 1]
    /\ IF ok
       THEN /\ delivered' = [delivered EXCEPT ![b] = @ + 1]
            /\ w_cur' = b
            /\ w_pc' = "mark"
            /\ w_wake' = w_wake
            /\ w_failed' = w_failed
            /\ w_log' = w_log
       ELSE /\ delivered' = delivered
            /\ w_cur' = 0
            /\ w_failed' = w_failed \cup {b}
            /\ w_log' = w_log \cup {"send"}
            /\ IF w_cands \ {b} = {}
               THEN EndCycle
               ELSE w_pc' = "send" /\ w_wake' = w_wake
    /\ UNCHANGED <<storeVars, procVars, clock, timezone, w_now, w_found, w_failedPrev,
                   w_logPrev>>

\* await db.mark_reminder_sent(booking_id), after a send that returned
WorkerMark ==
    /\ w_pc = "mark"
    /\ bookings' = mark_reminder_sent(w_cur)
    /\ w_cur' = 0
    /\ IF w_cands = {}
       THEN EndCycle
       ELSE w_pc' = "send" /\ w_wake' = w_wake
    /\ UNCHANGED <<users, seqUsers, slots, seqSlots, seqBookings, procVars, clock, timezone,
                   w_now,
                   w_cands, w_found, w_failed, w_failedPrev, dispatched,
                   delivered, w_log, w_logPrev>>

\* mutant: no outer except, the exception ends the task
WorkerFindFailsStops ==
    /\ w_pc = "find"
    /\ w_pc' = "stopped"
    /\ w_log' = {"find"}
    /\ UNCHANGED <<storeVars, procVars, clock, timezone, w_now, w_cands, w_cur, w_wake,
                   w_found, w_failed, w_failedPrev, dispatched, delivered,
                   w_logPrev>>

\* find_bookings_for_reminder raises (the storage fails): the outer except
\* logs it and the loop goes on to asyncio.sleep(60)
WorkerFindFails ==
    /\ w_pc = "find"
    /\ w_cands' = {}
    /\ w_found' = {}
    /\ w_failedPrev' = w_failed
    /\ w_failed' = {}
    /\ w_logPrev' = w_log
    /\ w_log' = {"find"}
    /\ EndCycle
    /\ UNCHANGED <<storeVars, procVars, clock, timezone, w_now, w_cur, dispatched, delivered>>

\* mutant: the exception of mark_reminder_sent leaves the for loop
WorkerMarkFailsEndsCycle ==
    /\ w_pc = "mark"
    /\ w_cur' = 0
    /\ w_log' = w_log \cup {"mark"}
    /\ EndCycle
    /\ UNCHANGED <<storeVars, procVars, clock, timezone, w_now, w_cands, w_found, w_failed,
                   w_failedPrev, dispatched, delivered, w_logPrev>>

\* mark_reminder_sent raises after a send that returned: the inner except
\* logs it and the for loop goes on with the next candidate
WorkerMarkFails ==
    /\ w_pc = "mark"
    /\ w_cur' = 0
    /\ w_log' = w_log \cup {"mark"}
    /\ IF w_cands = {}
       THEN EndCycle
       ELSE w_pc' = "send" /\ w_wake' = w_wake
    /\ UNCHANGED <<storeVars, procVars, clock, timezone, w_now, w_cands, w_found, w_failed,
                   w_failedPrev, dispatched, delivered, w_logPrev>>

\* time passes, while a handler or a cycle of the worker is under way or
\* the worker sleeps; a sleep that is over returns without delay
Tick(d) ==
    /\ clock + d <= MaxTicks * d
    /\ ~ (w_pc = "sleeping" /\ clock >= w_wake)
    /\ clock' = clock + d
    /\ UNCHANGED <<storeVars, procVars, workerVars, timezone>>

(***************************************************************************)
(* The store with two registered clients and no slot yet; the reminder     *)
(* worker has not started its first cycle.                                 *)
(***************************************************************************)
User(i, tg, phone) ==
    [id |-> i, tg_user_id |-> tg, chat_id |-> tg, phone |-> phone, is_admin |-> 0,
     created_at |-> 0]

Init ==
    /\ timezone = "Europe/Moscow"
    /\ users = {User(1, 101, 1), User(2, 102, 1)}
    /\ seqUsers = 2
    /\ slots = {}
    /\ bookings = {}
    /\ seqSlots = 0
    /\ seqBookings = 0
    /\ pc = [p \in Procs |-> "idle"]
    /\ loc = [p \in Procs |-> NoLoc]
    /\ res = [p \in Procs |-> NoRes]
    /\ clock = 0
    /\ w_pc = "sleeping"
    /\ w_now = 0
    /\ w_cands = {}
    /\ w_cur = 0
    /\ w_wake = 0
    /\ w_found = {}
    /\ w_failed = {}
    /\ w_failedPrev = {}
    /\ dispatched = [b \in BookingIds |-> 0]
    /\ delivered = [b \in BookingIds |-> 0]
    /\ w_log = {}
    /\ w_logPrev = {}

\* the request handlers, interleaved at their awaits
Next ==
    \E p \in Procs :
        \/ \E l \in LocalInputs : AddSlotInsert(p, l)
        \/ AddSlotSelect(p)
        \/ \E i \in 1 .. MaxSlotId : DelSlot(p, i)
        \/ \E tg \in TgUsers, i \in 1 .. MaxSlotId, g \in GuestsInputs,
              tok \in HoursTokens : ConfirmGetUser(p, tg, i, g, tok)
        \/ ConfirmInsert(p)
        \/ ConfirmSelect(p)
        \/ ConfirmExceptListSlots(p)
        \/ ConfirmRelist(p)
        \/ ConfirmOkListSlots(p)

Spec == Init /\ [][Next]_vars

(***************************************************************************)
(* The reminder worker beside one request handler: the store holds the     *)
(* two slots an administrator added (02:01 and 02:02 UTC of day 0), the    *)
(* worker starts at 00:00:00 and the clock runs.                           *)
(***************************************************************************)
InitReminder ==
    /\ timezone = "Europe/Moscow"
    /\ users = {User(1, 101, 1), User(2, 102, 1)}
    /\ seqUsers = 2
    /\ slots = {[id |-> 1, slot_utc |-> local_to_utc_iso(18060)],
                [id |-> 2, slot_utc |-> local_to_utc_iso(18120)]}
    /\ bookings = {}
    /\ seqSlots = 2
    /\ seqBookings = 0
    /\ pc = [p \in Procs |-> "idle"]
    /\ loc = [p \in Procs |-> NoLoc]
    /\ res = [p \in Procs |-> NoRes]
    /\ clock \in StartClocks
    /\ w_pc = "sleeping"
    /\ w_now = 0
    /\ w_cands = {}
    /\ w_cur = 0
    /\ w_wake = 0
    /\ w_found = {}
    /\ w_failed = {}
    /\ w_failedPrev = {}
    /\ dispatched = [b \in BookingIds |-> 0]
    /\ delivered = [b \in BookingIds |-> 0]
    /\ w_log = {}
    /\ w_logPrev = {}

NextReminder ==
    \/ \E tg \in {101}, i \in {1, 2}, g \in GuestsInputs, tok \in ReminderTokens :
           ConfirmGetUser(1, tg, i, g, tok)
    \/ ConfirmInsert(1)
    \/ ConfirmSelect(1)
    \/ ConfirmExceptListSlots(1)
    \/ ConfirmRelist(1)
    \/ ConfirmOkListSlots(1)
    \/ \E i \in {1, 2} : DelSlot(1, i)
    \/ WorkerNow
    \/ WorkerFind
    \/ \E b \in BookingIds, ok \in BOOLEAN : WorkerSend(b, ok)
    \/ WorkerMark
    \/ \E d \in TickSteps : Tick(d)

SpecReminder == InitReminder /\ [][NextReminder]_vars

(***************************************************************************)
(* Clients registering: the empty store, and /start and contact messages   *)
(* handled concurrently.                                                   *)
(***************************************************************************)
InitUsers ==
    /\ timezone = "Europe/Moscow"
    /\ users = {}
    /\ seqUsers = 0
    /\ slots = {}
    /\ bookings = {}
    /\ seqSlots = 0
    /\ seqBookings = 0
    /\ pc = [p \in Procs |-> "idle"]
    /\ loc = [p \in Procs |-> NoLoc]
    /\ res = [p \in Procs |-> NoRes]
    /\ clock = 0
    /\ w_pc = "sleeping"
    /\ w_now = 0
    /\ w_cands = {}
    /\ w_cur = 0
    /\ w_wake = 0
    /\ w_found = {}
    /\ w_failed = {}
    /\ w_failedPrev = {}
    /\ dispatched = [b \in BookingIds |-> 0]
    /\ delivered = [b \in BookingIds |-> 0]
    /\ w_log = {}
    /\ w_logPrev = {}

NextUsers ==
    \E p \in Procs :
        \/ \E h \in {"start", "contact"}, tg \in TgUsers, phone \in PhoneInputs :
              \E chat \in ChatInputs(tg) : EnsureUserInsert(p, h, tg, chat, phone)
        \/ EnsureUserSelect(p)
        \/ SetUserPhone(p)

SpecUsers == InitUsers /\ [][NextUsers]_vars

(***************************************************************************)
(* The listings offered to clients: three slots whose ids are not in the   *)
(* order of their starts, 20:30 and 23:30 UTC of day 0 and 01:00 UTC of    *)
(* day 1 (23:30 of day 0, 02:30 and 04:00 of day 1 in Europe/Moscow);      *)
(* clients book them and an administrator deletes them.                    *)
(***************************************************************************)
\* the instants at which the listings are asked for
ListingClocks == {0, 80000, 84600}
\* the fraction of the second of datetime.now(), in thousandths
FracInputs == {0, 500}

InitListing ==
    /\ timezone = "Europe/Moscow"
    /\ users = {User(1, 101, 1), User(2, 102, 1)}
    /\ seqUsers = 2
    /\ slots = {[id |-> 2, slot_utc |-> 73800],
                [id |-> 3, slot_utc |-> 84600],
                [id |-> 1, slot_utc |-> 90000]}
    /\ bookings = {}
    /\ seqSlots = 3
    /\ seqBookings = 0
    /\ pc = [p \in Procs |-> "idle"]
    /\ loc = [p \in Procs |-> NoLoc]
    /\ res = [p \in Procs |-> NoRes]
    /\ clock \in ListingClocks
    /\ w_pc = "sleeping"
    /\ w_now = 0
    /\ w_cands = {}
    /\ w_cur = 0
    /\ w_wake = 0
    /\ w_found = {}
    /\ w_failed = {}
    /\ w_failedPrev = {}
    /\ dispatched = [b \in BookingIds |-> 0]
    /\ delivered = [b \in BookingIds |-> 0]
    /\ w_log = {}
    /\ w_logPrev = {}

NextListing ==
    \/ \E tg \in {101, 102}, i \in {1, 2, 3}, g \in GuestsInputs :
           ConfirmGetUser(1, tg, i, g, "0")
    \/ ConfirmInsert(1)
    \/ ConfirmSelect(1)
    \/ ConfirmExceptListSlots(1)
    \/ ConfirmRelist(1)
    \/ ConfirmOkListSlots(1)
    \/ \E i \in {1, 2, 3} : DelSlot(2, i)

SpecListing == InitListing /\ [][NextListing]_vars

(***************************************************************************)
(* An administrator adding and deleting slots in a process configured for  *)
(* Europe/Moscow or for Europe/Berlin, with local times around both        *)
(* changes of the Berlin clock.                                            *)
(***************************************************************************)
\* 01:30, 02:30 (skipped in Berlin) and 03:30 of 2024-03-31; 01:30, 02:30
\* (twice in Berlin) and 03:30 of 2024-10-27
ZoneLocalInputs == {91800, 95400, 99000, 18235800, 18239400, 18243000}

InitZones ==
    /\ timezone \in Zones
    /\ users = {User(1, 101, 1), User(2, 102, 1)}
    /\ seqUsers = 2
    /\ slots = {}
    /\ bookings = {}
    /\ seqSlots = 0
    /\ seqBookings = 0
    /\ pc = [p \in Procs |-> "idle"]
    /\ loc = [p \in Procs |-> NoLoc]
    /\ res = [p \in Procs |-> NoRes]
    /\ clock = 0
    /\ w_pc = "sleeping"
    /\ w_now = 0
    /\ w_cands = {}
    /\ w_cur = 0
    /\ w_wake = 0
    /\ w_found = {}
    /\ w_failed = {}
    /\ w_failedPrev = {}
    /\ dispatched = [b \in BookingIds |-> 0]
    /\ delivered = [b \in BookingIds |-> 0]
    /\ w_log = {}
    /\ w_logPrev = {}

NextZones ==
    \/ \E l \in ZoneLocalInputs : AddSlotInsert(1, l)
    \/ AddSlotSelect(1)
    \/ \E i \in 1 .. MaxSlotId : DelSlot(2, i)

SpecZones == InitZones /\ [][NextZones]_vars

(***************************************************************************)
(* The reminder worker with failing storage and notifier: the store holds  *)
(* two bookings made earlier whose reminders fall due in the same minute   *)
(* (02:01 with two hours, 03:01 with three), and an administrator may      *)
(* delete their slots.                                                     *)
(***************************************************************************)
Booking(i, user_id, slot_id, reminder_hours_before) ==
    [id |-> i, user_id |-> user_id, slot_id |-> slot_id,
     created_at |-> 0, reminder_sent |-> 0, status |-> "booked",
     guests_count |-> 1, reminder_hours_before |-> reminder_hours_before,
     reminder_enabled |-> 1]

InitWorker ==
    /\ timezone = "Europe/Moscow"
    /\ users = {User(1, 101, 1), User(2, 102, 1)}
    /\ seqUsers = 2
    /\ slots = {[id |-> 1, slot_utc |-> local_to_utc_iso(18060)],
                [id |-> 2, slot_utc |-> local_to_utc_iso(18060 + SecondsPerHour)]}
    /\ bookings = {Booking(1, 1, 1, 2), Booking(2, 2, 2, 3)}
    /\ seqSlots = 2
    /\ seqBookings = 2
    /\ pc = [p \in Procs |-> "idle"]
    /\ loc = [p \in Procs |-> NoLoc]
    /\ res = [p \in Procs |-> NoRes]
    /\ clock \in StartClocks
    /\ w_pc = "sleeping"
    /\ w_now = 0
    /\ w_cands = {}
    /\ w_cur = 0
    /\ w_wake = 0
    /\ w_found = {}
    /\ w_failed = {}
    /\ w_failedPrev = {}
    /\ dispatched = [b \in BookingIds |-> 0]
    /\ delivered = [b \in BookingIds |-> 0]
    /\ w_log = {}
    /\ w_logPrev = {}

\* the steps of reminder_worker
WorkerStep ==
    \/ WorkerNow
    \/ WorkerFind
    \/ WorkerFindFails
    \/ \E b \in BookingIds, ok \in BOOLEAN : WorkerSend(b, ok)
    \/ WorkerMark
    \/ WorkerMarkFails

NextWorker ==
    \/ WorkerStep
    \/ \E i \in {1, 2} : DelSlot(1, i)
    \/ \E d \in TickSteps : Tick(d)

SpecWorker == InitWorker /\ [][NextWorker]_vars

\* the event loop resumes the worker whenever its await has completed, and
\* time goes on
SpecWorkerFair ==
    /\ SpecWorker
    /\ WF_vars(WorkerStep)
    /\ WF_vars(\E d \in TickSteps : Tick(d))

(***************************************************************************)
(* Properties of the store under concurrent handlers (Spec).               *)
(***************************************************************************)
\* C1: in every reachable state each slot is referenced by at most one
\* booking.
C1_SlotBookedAtMostOnce ==
    \A b1, b2 \in bookings : b1.slot_id = b2.slot_id => b1 = b2

\* a claim was turned down by UNIQUE(slot_id) and the slot keeps its booking
C1_Witness ==
    \E p \in Procs :
        /\ res[p].h = "confirm"
        /\ res[p].exc = "UNIQUE"
        /\ \E b \in bookings : b.slot_id = res[p].a

\* the claim of task p went through: create_booking returned the id of a
\* booking of the slot
Won(p) ==
    /\ res[p].out = "confirmed"
    /\ res[p].exc = "none"
    /\ \E b \in bookings : b.id = res[p].ret /\ b.slot_id = res[p].a

\* the claim of task p met the conflict: IntegrityError on UNIQUE(slot_id),
\* answered "slot just taken"
Lost(p) ==
    /\ res[p].out = "taken"
    /\ res[p].exc = "UNIQUE"
    /\ res[p].ret = 0

\* tasks p and q both ran on_confirm_booking for the same slot, both started
\* while the slot existed and was free, both called create_booking and
\* returned, the slot still exists, and nobody else booked it
ConcurrentPair(p, q) ==
    /\ p # q
    /\ res[p].h = "confirm" /\ res[q].h = "confirm"
    /\ res[p].pre = 1 /\ res[q].pre = 1
    /\ res[p].a = res[q].a
    /\ res[p].a \in SlotIds(slots)
    /\ \A b \in bookings : b.slot_id = res[p].a => b.id \in {res[p].ret, res[q].ret}

\* C2: of two concurrent claims of the same existing free slot exactly one
\* returns a booking id and the other fails with the conflict; never both
\* succeed, never both fail.
C2_ExactlyOneClaimWins ==
    \A p, q \in Procs :
        ConcurrentPair(p, q) => (Won(p) /\ Lost(q)) \/ (Won(q) /\ Lost(p))

\* two concurrent claims of one slot have both returned
C2_Witness ==
    \E p, q \in Procs : ConcurrentPair(p, q) /\ Won(p) /\ Lost(q)

\* C3: create_booking on a slot that already has a booking raises the
\* UNIQUE IntegrityError and leaves the store as it was: no row is added and
\* the existing booking keeps every column.
C3_TakenSlotRejected ==
    [][\A p \in Procs :
          (/\ pc[p] = "cb_insert"
           /\ pc'[p] # "cb_insert"
           /\ \E b \in bookings : b.slot_id = loc[p].a)
          => /\ pc'[p] = "cb_except"
             /\ loc'[p].exc = "UNIQUE"
             /\ bookings' = bookings
             /\ seqBookings' = seqBookings
             /\ slots' = slots
             /\ users' = users]_vars

\* a create_booking on a booked slot has just been turned down
C3_Witness ==
    \E p \in Procs :
        /\ pc[p] = "cb_except"
        /\ loc[p].exc = "UNIQUE"
        /\ \E b \in bookings : b.slot_id = loc[p].a /\ b.user_id # loc[p].u

\* C4: delete_slot removes the slot and, by cascade, the booking that
\* references it, so that list_bookings no longer holds it; it reports a
\* deleted row exactly when the slot existed.
C4_DeleteCascades ==
    [][\A p \in Procs, i \in 1 .. MaxSlotId :
          (res'[p] # res[p] /\ res'[p].h = "delslot" /\ res'[p].a = i)
          => /\ i \notin SlotIds(slots')
             /\ \A b \in bookings' : b.slot_id # i
             /\ \A b \in list_bookings' : b.slot_id # i
             /\ res'[p].ret \in {0, 1}
             /\ res'[p].ret = 1 <=> i \in SlotIds(slots)
             /\ res'[p].out = "deleted" <=> i \in SlotIds(slots)
             /\ \A b \in bookings : b.slot_id # i => b \in bookings']_vars

\* a delete_slot of a booked slot has returned 1
C4_Witness ==
    \E p \in Procs :
        /\ res[p].h = "delslot"
        /\ res[p].ret = 1
        /\ res[p].pre = 1
        /\ bookings # {}

\* two add_slot calls for one instant that both returned, the slot each
\* returned still being there
SameInstantAdded(p, q) ==
    /\ res[p].h = "addslot" /\ res[q].h = "addslot"
    /\ res[p].out = "added" /\ res[q].out = "added"
    /\ res[p].a = res[q].a
    /\ res[p].ret \in SlotIds(slots) /\ res[q].ret \in SlotIds(slots)

\* C5: add_slot called again with the start instant of an existing slot
\* adds no row and returns that slot's id, so two calls with the same
\* instant return the same id.
C5_AddSlotIdempotent ==
    /\ [](\A p, q \in Procs : SameInstantAdded(p, q) => res[p].ret = res[q].ret)
    /\ [][\A p \in Procs :
            /\ (pc[p] = "idle" /\ pc'[p] = "as_select" /\ loc'[p].pre # 0)
               => slots' = slots
            /\ (/\ pc[p] = "as_select" /\ pc'[p] = "idle"
                /\ loc[p].pre \in SlotIds(slots))
               => res'[p].out = "added" /\ res'[p].ret = loc[p].pre]_vars

\* a second add_slot for an instant has returned the id the first returned
C5_Witness ==
    \E p, q \in Procs :
        /\ p # q
        /\ SameInstantAdded(p, q)
        /\ res[p].pre = 0
        /\ res[q].pre = res[p].ret
        /\ res[q].ret = res[p].ret
        /\ Cardinality(slots) = 1

\* C6: in every reachable state no two slots have the same start instant.
C6_SlotInstantUnique ==
    \A s1, s2 \in slots : s1.slot_utc = s2.slot_utc => s1 = s2

\* two add_slot calls for one instant are under way at once, both past
\* their insert
C6_Witness ==
    \E p, q \in Procs :
        /\ p # q
        /\ pc[p] = "as_select" /\ pc[q] = "as_select"
        /\ loc[p].a = loc[q].a
        /\ \E s \in slots : s.slot_utc = loc[p].a

(***************************************************************************)
(* Properties of the reminder worker (SpecReminder).                       *)
(***************************************************************************)
\* the bookings the specification calls due at now: reminder enabled, not
\* sent, booked, slot start in [now + hoursBefore, now + hoursBefore + 60 s)
ClaimedDue(now) ==
    {b.id : b \in
        {r \in bookings :
            /\ r.reminder_enabled = 1
            /\ r.reminder_sent = 0
            /\ r.status = "booked"
            /\ \E s \in slots : s.id = r.slot_id
            /\ now + r.reminder_hours_before * SecondsPerHour
                 <= RowById(slots, r.slot_id).slot_utc
            /\ RowById(slots, r.slot_id).slot_utc
                 < now + r.reminder_hours_before * SecondsPerHour + WindowSeconds}}

\* C7: find_bookings_for_reminder(now) returns exactly the bookings with
\* reminder enabled, not sent, status booked, and slot start in the
\* half-open window [now + hoursBefore, now + hoursBefore + 60 s).
C7_FindReturnsClaimedWindow ==
    [][(w_pc = "find" /\ w_pc' # "find") => w_found' = ClaimedDue(w_now)]_vars

C9_FailedDispatchRetried ==
    \A b \in bookings :
        b.id \in w_failedPrev => (b.reminder_sent = 0 /\ b.id \in w_found)

\* the instant a booking's reminder is due: slot start - hoursBefore
DueAt(b) ==
    RowById(slots, b.slot_id).slot_utc - b.reminder_hours_before * SecondsPerHour

\* C10: every booking with the reminder enabled that was created before
\* (slot start - hoursBefore) has the notifier called for it at least once:
\* once the worker's clock reading is past that instant, a call was made.
C10_ReminderNeverMissed ==
    \A b \in bookings :
        (/\ b.reminder_enabled = 1
         /\ b.reminder_hours_before > 0
         /\ b.created_at < DueAt(b)
         /\ w_now > DueAt(b))
        => dispatched[b.id] >= 1

(***************************************************************************)
(* Properties of the reminder worker under failures (SpecWorker,           *)
(* SpecWorkerFair).                                                        *)
(***************************************************************************)
\* C11: a failure of find_bookings_for_reminder, of the notifier or of
\* mark_reminder_sent does not end the worker: every cycle that started
\* reaches asyncio.sleep(60), and after every sleep that ends within the
\* modelled time a next cycle starts.
C11_WorkerSurvivesFailures ==
    /\ (w_pc \in {"find", "send", "mark"}) ~> (w_pc = "sleeping")
    /\ (w_pc = "sleeping" /\ \E d \in TickSteps : w_wake <= MaxTicks * d)
          ~> (w_pc = "find")

\* the find of a cycle raised and the cycle after it found the due bookings
C11_Witness ==
    /\ w_logPrev = {"find"}
    /\ w_found # {}
    /\ w_pc = "send"

\* C12: when a cycle ends, the notifier has been called for every booking
\* its find returned, whatever failed for the other bookings of the cycle.
C12_FailureSparesOtherBookings ==
    /\ [](w_pc = "sleeping" => w_cands = {})
    /\ [][(w_pc # "sleeping" /\ w_pc' = "sleeping")
            => \A b \in w_found' : dispatched'[b] >= 1]_vars

\* two bookings were due in the cycle; a failure was logged for one of
\* them, and after it the send for the other one returned
C12_Witness ==
    /\ w_pc = "mark"
    /\ Cardinality(w_found) = 2
    /\ w_log # {}
    /\ w_cur \in w_found
    /\ delivered[w_cur] = 1

\* C13: a booking whose reminder_sent flag is set has had a notifier call
\* that returned.
C13_FlagOnlyAfterDelivery ==
    \A b \in bookings : b.reminder_sent = 1 => delivered[b.id] >= 1

\* one booking is flagged after its send returned while another one, whose
\* send raised, is not
C13_Witness ==
    /\ \E b \in bookings : b.reminder_sent = 1 /\ delivered[b.id] = 1
    /\ \E b \in bookings :
          /\ dispatched[b.id] = 1
          /\ delivered[b.id] = 0
          /\ b.reminder_sent = 0

\* C14: mark_reminder_sent is idempotent and touches only the flag of the
\* named booking, and no step of any operation takes a set flag back to 0.
C14_FlagMonotone ==
    /\ [](\A i \in BookingIds :
            LET B1 == UpdateReminderSent(bookings, i) IN
              /\ UpdateReminderSent(B1, i) = B1
              /\ {b \in B1 : b.id # i} = {b \in bookings : b.id # i}
              /\ \A b \in bookings :
                    b.id = i => [b EXCEPT !.reminder_sent = 1] \in B1)
    /\ [][\A b \in bookings, c \in bookings' :
            (c.id = b.id /\ b.reminder_sent = 1) => c.reminder_sent = 1]_vars

\* a booking is flagged beside one that is not, and the worker has run a
\* later cycle
C14_Witness ==
    /\ \E b, c \in bookings :
          b.id # c.id /\ b.reminder_sent = 1 /\ c.reminder_sent = 0
    /\ w_pc = "sleeping"
    /\ \A b \in bookings : b.id \notin w_found

(***************************************************************************)
(* Properties of the users table (SpecUsers).                              *)
(***************************************************************************)
\* a run of ensure_user_record by task p has returned a user id
Upserted(p) == res[p].h \in {"start", "contact"} /\ res[p].out = "user"

\* C15: there is one users row per Telegram user id; a row keeps its id, so
\* every upsert_user call for that Telegram id returns the id of that row:
\* the id the row had before the call, and the id another call returned.
C15_UpsertUserIdempotent ==
    /\ [](\A u, v \in users : u.tg_user_id = v.tg_user_id => u = v)
    /\ [](\A p \in Procs :
            Upserted(p) =>
              /\ \E u \in users : u.tg_user_id = res[p].a /\ u.id = res[p].ret
              /\ res[p].pre # 0 => res[p].ret = res[p].pre)
    /\ [](\A p, q \in Procs :
            (Upserted(p) /\ Upserted(q) /\ res[p].a = res[q].a)
              => res[p].ret = res[q].ret)
    /\ [][\A u \in users :
            \E v \in users' : v.tg_user_id = u.tg_user_id /\ v.id = u.id]_vars

\* task p created the row of a Telegram id and has not yet read its id;
\* meanwhile task q ran upsert_user for the same Telegram id, met the row
\* and returned its id
C15_Witness ==
    \E p, q \in Procs :
        /\ pc[p] = "uu_select" /\ loc[p].pre = 0
        /\ Upserted(q) /\ res[q].a = loc[p].a
        /\ res[q].pre # 0
        /\ res[q].ret = res[q].pre
        /\ Cardinality({u \in users : u.tg_user_id = res[q].a}) = 1

(***************************************************************************)
(* Properties of the listings (SpecListing).                               *)
(***************************************************************************)
\* the since arguments tried: none, and every listing instant with every
\* fraction of a second
SinceInputs ==
    {NoSince} \cup {[sec |-> t, frac |-> f] : t \in ListingClocks, f \in FracInputs}

\* the slots the specification calls free from since on
ClaimedFree(since) ==
    {s \in slots :
        /\ \A b \in bookings : b.slot_id # s.id
        /\ (since.sec = NULL \/ s.slot_utc * 1000 >= since.sec * 1000 + since.frac)}

\* C16: list_free_slots(since) holds exactly the slots without a booking
\* whose start is >= since (all of them without since), each once, in
\* ascending order of start.
C16_ListFreeSlots ==
    \A since \in SinceInputs :
        LET r == list_free_slots(since) IN
          /\ {r[i] : i \in 1 .. Len(r)} = ClaimedFree(since)
          /\ Len(r) = Cardinality(ClaimedFree(since))
          /\ \A i, j \in 1 .. Len(r) : i < j => r[i].slot_utc < r[j].slot_utc

\* one slot is booked and two are free, the later one with the smaller id;
\* without since both are listed in order of start, and a since half a
\* second after the start of the first leaves the second only
C16_Witness ==
    /\ \E b \in bookings : b.slot_id = 2
    /\ Len(list_free_slots(NoSince)) = 2
    /\ list_free_slots(NoSince)[1].id = 3
    /\ list_free_slots(NoSince)[2].id = 1
    /\ Len(list_free_slots([sec |-> 84600, frac |-> 500])) = 1
    /\ Len(list_free_slots([sec |-> 84600, frac |-> 0])) = 2

\* the local calendar day of an instant in the configured zone
LocalDay(u) == (u + TzOffsetSeconds) \div SecondsPerDay

\* C17: list_dates_keyboard returns the local dates of the free slots with
\* start >= now, each once and ascending (None when there is none); a date
\* with only booked or only past slots is not among them.
C17_ListDates ==
    \A f \in FracInputs :
        LET r == list_dates_keyboard(f)
            D == {LocalDay(s.slot_utc) :
                    s \in ClaimedFree([sec |-> clock, frac |-> f])}
        IN  IF D = {}
            THEN r.text = "none"
            ELSE /\ r.text = "choose"
                 /\ {r.dates[i] : i \in 1 .. Len(r.dates)} = D
                 /\ Len(r.dates) = Cardinality(D)
                 /\ \A i, j \in 1 .. Len(r.dates) :
                       i < j => r.dates[i] < r.dates[j]

\* before all starts, with the only slot of day 0 booked and the two slots
\* of day 1 free: day 0 is not offered and day 1 is offered once
C17_Witness ==
    /\ clock = 0
    /\ \E b \in bookings : b.slot_id = 2
    /\ Len(list_free_slots(NoSince)) = 2
    /\ list_dates_keyboard(500).text = "choose"
    /\ list_dates_keyboard(500).dates = <<1>>

\* the local dates asked for
DateInputs == {0, 1, 2}

\* the local time of day of an instant in the configured zone, in minutes
LocalMinute(u) == ((u + TzOffsetSeconds) % SecondsPerDay) \div 60

\* C18: list_times_keyboard(D) lists every slot without a booking whose
\* local date is D once, with its local time, in ascending order of that
\* time, and nothing else: no slot of another local date and no booked slot.
C18_ListTimes ==
    \A D \in DateInputs :
        LET r == list_times_keyboard(D)
            F == {s \in slots : /\ \A b \in bookings : b.slot_id # s.id
                                /\ LocalDay(s.slot_utc) = D}
        IN  IF F = {}
            THEN r.text = "none"
            ELSE /\ r.text = "times"
                 /\ {r.pairs[i] : i \in 1 .. Len(r.pairs)}
                      = {<<s.id, LocalMinute(s.slot_utc)>> : s \in F}
                 /\ Len(r.pairs) = Cardinality(F)
                 /\ \A i, j \in 1 .. Len(r.pairs) :
                       i < j => r.pairs[i][2] < r.pairs[j][2]

\* the slot at 23:30 UTC of day 0 is free and listed under local day 1 at
\* 02:30, before the free slot at 04:00; the only slot of local day 0 is
\* booked, so nothing is listed for day 0
C18_Witness ==
    /\ \E b \in bookings : b.slot_id = 2
    /\ \E s \in slots : s.id = 3 /\ s.slot_utc \div SecondsPerDay = 0
    /\ list_times_keyboard(1).text = "times"
    /\ list_times_keyboard(1).pairs = << <<3, 150>>, <<1, 240>> >>
    /\ list_times_keyboard(0).text = "none"

(***************************************************************************)
(* Properties of the time conversions (SpecZones).                         *)
(***************************************************************************)
\* the wall-clock time l does not exist in zone tz: the clock was put
\* forward over it
InSkippedHour(l, tz) ==
    /\ DstOffset(tz) # StdOffset(tz)
    /\ DstStartUtc + StdOffset(tz) <= l
    /\ l < DstStartUtc + DstOffset(tz)

\* C19: a local wall-clock minute outside the skipped hour of the zone,
\* converted by local_to_utc_iso and back by utc_iso_to_local_str, gives
\* its own date and time again.
C19_RoundTrip ==
    \A l \in ZoneLocalInputs \cup LocalInputs :
        ~ InSkippedHour(l, timezone)
          => utc_iso_to_local_str(local_to_utc_iso(l))
               = <<l \div SecondsPerDay, (l % SecondsPerDay) \div 60>>

\* in Europe/Berlin slots were added for 02:30 of 2024-10-27, which occurs
\* twice, and for 03:30 of 2024-03-31, in summer time; they are stored as
\* 01:30 UTC both and shown with the local time entered
C19_Witness ==
    /\ timezone = "Europe/Berlin"
    /\ \E s \in slots :
          /\ s.slot_utc = 18239400 - SecondsPerHour
          /\ utc_iso_to_local_str(s.slot_utc) = <<211, 150>>
    /\ \E s \in slots :
          /\ s.slot_utc = 99000 - 2 * SecondsPerHour
          /\ utc_iso_to_local_str(s.slot_utc) = <<1, 210>>

(***************************************************************************)
(* Clients sending confirm_booking callback data whose fields are their    *)
(* own: a user with a telephone number and one without, two free slots,    *)
(* and an administrator deleting slots.                                    *)
(***************************************************************************)
\* the guests field of the callback data: a button of guests_count_kb, and
\* values no button carries
GuestsTokens == {"1", "0", "-1"}

InitCallback ==
    /\ timezone = "Europe/Moscow"
    /\ users = {User(1, 101, 1), User(2, 102, NULL)}
    /\ seqUsers = 2
    /\ slots = {[id |-> 1, slot_utc |-> 7200], [id |-> 2, slot_utc |-> 10800]}
    /\ bookings = {}
    /\ seqSlots = 2
    /\ seqBookings = 0
    /\ pc = [p \in Procs |-> "idle"]
    /\ loc = [p \in Procs |-> NoLoc]
    /\ res = [p \in Procs |-> NoRes]
    /\ clock = 0
    /\ w_pc = "sleeping"
    /\ w_now = 0
    /\ w_cands = {}
    /\ w_cur = 0
    /\ w_wake = 0
    /\ w_found = {}
    /\ w_failed = {}
    /\ w_failedPrev = {}
    /\ dispatched = [b \in BookingIds |-> 0]
    /\ delivered = [b \in BookingIds |-> 0]
    /\ w_log = {}
    /\ w_logPrev = {}

NextCallback ==
    \/ \E tg \in {101, 102}, i \in 1 .. MaxSlotId,
          g \in GuestsTokens, tok \in HoursTokens \cup {"0"} :
           ConfirmGetUser(1, tg, i, int(g), tok)
    \/ ConfirmInsert(1)
    \/ ConfirmSelect(1)
    \/ ConfirmExceptListSlots(1)
    \/ ConfirmRelist(1)
    \/ ConfirmOkListSlots(1)
    \/ \E i \in 1 .. MaxSlotId : DelSlot(2, i)

SpecCallback == InitCallback /\ [][NextCallback]_vars

(***************************************************************************)
(* Properties of the bookings made from callback data (SpecCallback).      *)
(***************************************************************************)
\* C20: every booking in the store has a guests count of at least 1.
C20_GuestsPositive ==
    \A b \in bookings : b.guests_count >= 1

(***************************************************************************)
(* Properties of the reminder settings of bookings (SpecReminder).         *)
(***************************************************************************)
\* C21: a booking has its reminder enabled if and only if the hours-before
\* asked for is a positive integer; with 0 or no value the reminder is
\* disabled.
C21_EnabledIffPositiveHours ==
    \A b \in bookings :
        b.reminder_enabled = 1
          <=> (b.reminder_hours_before # NULL /\ b.reminder_hours_before > 0)

(***************************************************************************)
(* Properties of a booking attempt (Spec).                                 *)
(***************************************************************************)
\* the slot task p is about to claim exists and no booking references it
ClaimMeetsFreeSlot(p) ==
    /\ loc[p].a \in SlotIds(slots)
    /\ \A b \in bookings : b.slot_id # loc[p].a

\* C22: a booking attempt on an existing slot is decided by the one insert
\* of create_booking: a free slot gets a booking with status 'booked' at
\* once, a taken slot raises the conflict and nothing is written; no row
\* ever has another status, and an attempt on a slot that was free when it
\* started and still exists when it ends is answered confirmed or taken.
\* When the attempt is rejected as taken, the times then listed for the
\* slot's local date do not hold that slot.
C22_ClaimDecidedInOneStep ==
    /\ [](\A b \in bookings : b.status = "booked")
    /\ [][\A p \in Procs :
            (/\ pc[p] = "cb_insert"
             /\ pc'[p] # "cb_insert"
             /\ loc[p].a \in SlotIds(slots))
            => IF ClaimMeetsFreeSlot(p)
               THEN /\ pc'[p] = "cb_select"
                    /\ \E b \in bookings' \ bookings :
                          /\ bookings' = bookings \cup {b}
                          /\ b.slot_id = loc[p].a
                          /\ b.user_id = loc[p].u
                          /\ b.status = "booked"
               ELSE /\ pc'[p] = "cb_except"
                    /\ loc'[p].exc = "UNIQUE"
                    /\ bookings' = bookings]_vars
    /\ [][\A p \in Procs :
            (/\ loc[p].h = "confirm"
             /\ loc[p].pre = 1
             /\ pc'[p] = "idle"
             /\ loc[p].a \in SlotIds(slots))
            => \/ /\ res'[p].out = "confirmed"
                  /\ res'[p].exc = "none"
                  /\ \E b \in bookings : b.id = res'[p].ret /\ b.slot_id = loc[p].a
               \/ /\ res'[p].out = "taken"
                  /\ res'[p].exc = "UNIQUE"
                  /\ \E b \in bookings : b.slot_id = loc[p].a]_vars
    /\ [][\A p \in Procs :
            (/\ pc[p] = "cb_relist"
             /\ pc'[p] = "idle"
             /\ loc[p].exc = "UNIQUE")
            => /\ res'[p].out = "taken"
               /\ res'[p].shown.text \in {"none", "times"}
               /\ res'[p].shown.text = "times"
                    => \A k \in 1 .. Len(res'[p].shown.pairs) :
                          res'[p].shown.pairs[k][1] # loc[p].a]_vars

\* a claim of a booked slot was turned down and the times of its date were
\* listed again: the other slot of that date, still free, and not the
\* taken one
C22_Witness ==
    \E p \in Procs :
        /\ res[p].h = "confirm"
        /\ res[p].out = "taken"
        /\ res[p].exc = "UNIQUE"
        /\ res[p].a \in SlotIds(slots)
        /\ res[p].shown.text = "times"
        /\ Len(res[p].shown.pairs) = 1
        /\ res[p].shown.pairs[1][1] # res[p].a

(***************************************************************************)
(* Properties of the polls of the reminder worker (SpecReminder).          *)
(***************************************************************************)
\* C23: there is no catch-up. A poll whose clock reading is past a booking's
\* due instant (slot start - hoursBefore), the end of its due window, does
\* not find the booking, and the notifier is called only for bookings the
\* find of the current cycle returned; so a booking whose window passed
\* without a poll is never dispatched later.
C23_NoCatchUp ==
    /\ [][(w_pc = "find" /\ w_pc' # "find")
            => \A b \in bookings : b.id \in w_found' => w_now <= DueAt(b)]_vars
    /\ [][\A i \in BookingIds :
            dispatched'[i] # dispatched[i] => (i \in w_found /\ w_pc = "send")]_vars

\* a booking with the reminder enabled was in the store, unsent, when a poll
\* ran after its due instant; that poll found nothing and the notifier was
\* never called for the booking
C23_Witness ==
    \E b \in bookings :
        /\ b.reminder_enabled = 1
        /\ b.reminder_hours_before = 2
        /\ b.reminder_sent = 0
        /\ b.created_at < w_now
        /\ DueAt(b) < w_now
        /\ w_pc = "sleeping"
        /\ w_found = {}
        /\ dispatched[b.id] = 0

(***************************************************************************)
(* Properties of claims of missing slots (SpecCallback).                   *)
(***************************************************************************)
\* C24: a claim of a slot id that does not exist (the insert violates the
\* foreign key) creates no booking and is not answered as the conflict
\* "slot just taken" is.
C24_MissingSlotNotTaken ==
    \A p \in Procs :
        (res[p].h = "confirm" /\ res[p].exc = "FOREIGN KEY")
          => /\ res[p].out # "taken"
             /\ \A b \in bookings : b.slot_id # res[p].a

(***************************************************************************)
(* Clients registering and claiming while an administrator adds and        *)
(* deletes slots: task 1 runs the claims of the registered user 101 and    *)
(* of 102, who registers here; task 2 runs the /start and contact          *)
(* messages and the administrator's commands.                              *)
(***************************************************************************)
InitStore ==
    /\ timezone = "Europe/Moscow"
    /\ users = {User(1, 101, 1)}
    /\ seqUsers = 1
    /\ slots = {}
    /\ bookings = {}
    /\ seqSlots = 0
    /\ seqBookings = 0
    /\ pc = [p \in Procs |-> "idle"]
    /\ loc = [p \in Procs |-> NoLoc]
    /\ res = [p \in Procs |-> NoRes]
    /\ clock = 0
    /\ w_pc = "sleeping"
    /\ w_now = 0
    /\ w_cands = {}
    /\ w_cur = 0
    /\ w_wake = 0
    /\ w_found = {}
    /\ w_failed = {}
    /\ w_failedPrev = {}
    /\ dispatched = [b \in BookingIds |-> 0]
    /\ delivered = [b \in BookingIds |-> 0]
    /\ w_log = {}
    /\ w_logPrev = {}

NextStore ==
    \/ \E tg \in {101, 102}, i \in 1 .. MaxSlotId, g \in GuestsInputs :
           ConfirmGetUser(1, tg, i, g, "0")
    \/ ConfirmInsert(1)
    \/ ConfirmSelect(1)
    \/ ConfirmExceptListSlots(1)
    \/ ConfirmRelist(1)
    \/ ConfirmOkListSlots(1)
    \/ \E h \in {"start", "contact"}, tg \in {101, 102}, phone \in PhoneInputs :
           EnsureUserInsert(2, h, tg, tg, phone)
    \/ EnsureUserSelect(2)
    \/ SetUserPhone(2)
    \/ \E l \in LocalInputs : AddSlotInsert(2, l)
    \/ AddSlotSelect(2)
    \/ \E i \in 1 .. MaxSlotId : DelSlot(2, i)

SpecStore == InitStore /\ [][NextStore]_vars

(***************************************************************************)
(* Properties of the store under registering, claiming, adding and         *)
(* deleting (SpecStore).                                                   *)
(***************************************************************************)
\* C25: in every reachable state each booking references a slot that
\* exists and a user that exists.
C25_ReferentialIntegrity ==
    \A b \in bookings :
        /\ b.slot_id \in SlotIds(slots)
        /\ b.user_id \in {u.id : u \in users}

\* create_booking has inserted a booking and, before its id lookup, the
\* administrator deleted the slot, the booking going with it; the booking
\* of the other slot, made by the user who registered meanwhile, stays
C25_Witness ==
    /\ pc[1] = "cb_select"
    /\ loc[1].a \notin SlotIds(slots)
    /\ res[2].h = "delslot"
    /\ res[2].a = loc[1].a
    /\ res[2].pre = 1
    /\ \E b \in bookings : b.user_id = 2 /\ b.slot_id # loc[1].a

(***************************************************************************)
(* Properties of booked slots (SpecReminder).                              *)
(***************************************************************************)
\* C26: a booked slot stays booked as long as it exists. Over every step,
\* the booking of a slot that is still there is still there, it is the
\* only booking of the slot, it keeps its user, its slot and its status
\* 'booked', and list_free_slots does not hold the slot.
C26_BookedSlotStaysBooked ==
    [][\A b \in bookings :
          b.slot_id \in SlotIds(slots')
            => /\ \E c \in bookings' : c.id = b.id
               /\ \A c \in bookings' :
                     c.slot_id = b.slot_id
                       => /\ c.id = b.id
                          /\ c.user_id = b.user_id
                          /\ c.status = "booked"
                          /\ b.status = "booked"
               /\ \A k \in 1 .. Len(list_free_slots(NoSince)') :
                     list_free_slots(NoSince)'[k].id # b.slot_id]_vars

\* the reminder of a booking was sent and flagged, and a claim made while
\* its slot was booked was turned down; the booking has its user and status
C26_Witness ==
    \E b \in bookings :
        /\ b.reminder_sent = 1
        /\ delivered[b.id] = 1
        /\ res[1].h = "confirm"
        /\ res[1].exc = "UNIQUE"
        /\ res[1].a = b.slot_id
        /\ res[1].pre = 0
        /\ b.user_id = 1
        /\ b.status = "booked"

(***************************************************************************)
(* Properties of consecutive polls (SpecWorker).                           *)
(***************************************************************************)
\* C27: consecutive polls of the worker are at least 60 s apart, a booking
\* is returned by find_bookings_for_reminder in at most one cycle, and the
\* notifier is called at most once for a booking, whether or not the send
\* or mark_reminder_sent failed.
C27_AtMostOneDispatch ==
    /\ [][(w_pc = "sleeping" /\ w_pc' = "find" /\ w_wake > 0)
            => w_now' >= w_now + PollSeconds]_vars
    /\ [][(w_pc = "find" /\ w_pc' # "find")
            => \A i \in w_found' : dispatched[i] = 0]_vars
    /\ [](\A i \in BookingIds : dispatched[i] <= 1)

\* the send for one booking raised, the send for the other returned and its
\* mark_reminder_sent raised, so both are unflagged; the next cycle, 60 s or
\* more later, has found neither
C27_Witness ==
    /\ w_pc = "sleeping"
    /\ w_found = {}
    /\ w_logPrev = {"send", "mark"}
    /\ w_now >= 90
    /\ \E b, c \in bookings :
          /\ dispatched[b.id] = 1 /\ delivered[b.id] = 0 /\ b.reminder_sent = 0
          /\ dispatched[c.id] = 1 /\ delivered[c.id] = 1 /\ c.reminder_sent = 0

(***************************************************************************)
(* A client with a booking and a newcomer sending /start and contact       *)
(* messages, from their private chat or from another chat, while time      *)
(* passes.                                                                 *)
(***************************************************************************)
InitProfile ==
    /\ timezone = "Europe/Moscow"
    /\ users = {User(1, 101, 1)}
    /\ seqUsers = 1
    /\ slots = {[id |-> 1, slot_utc |-> local_to_utc_iso(18060)]}
    /\ bookings = {Booking(1, 1, 1, 2)}
    /\ seqSlots = 1
    /\ seqBookings = 1
    /\ pc = [p \in Procs |-> "idle"]
    /\ loc = [p \in Procs |-> NoLoc]
    /\ res = [p \in Procs |-> NoRes]
    /\ clock = 0
    /\ w_pc = "sleeping"
    /\ w_now = 0
    /\ w_cands = {}
    /\ w_cur = 0
    /\ w_wake = PollSeconds
    /\ w_found = {}
    /\ w_failed = {}
    /\ w_failedPrev = {}
    /\ dispatched = [b \in BookingIds |-> 0]
    /\ delivered = [b \in BookingIds |-> 0]
    /\ w_log = {}
    /\ w_logPrev = {}

NextProfile ==
    \/ \E p \in Procs, h \in {"start", "contact"}, tg \in {101, 102},
          phone \in PhoneInputs :
           \E chat \in ChatInputs(tg) : EnsureUserInsert(p, h, tg, chat, phone)
    \/ \E p \in Procs : EnsureUserSelect(p)
    \/ \E p \in Procs : SetUserPhone(p)
    \/ \E d \in TickSteps : Tick(d)

SpecProfile == InitProfile /\ [][NextProfile]_vars

(***************************************************************************)
(* Properties of the rows of users (SpecProfile).                          *)
(***************************************************************************)
\* task p runs the statement of upsert_user in this step
UpsertStep(p) == pc[p] = "idle" /\ pc'[p] = "uu_select"

\* C28: upsert_user for a Telegram id that has a row leaves that row's id,
\* phone and creation time as they are, keeps it the only row of the
\* Telegram id, and leaves every other user, all slots and all bookings
\* unchanged.
C28_UpsertFrame ==
    [][\A p \in Procs :
          UpsertStep(p) =>
            /\ \A u \in users :
                  IF u.tg_user_id = loc'[p].a
                  THEN \A v \in users' :
                          v.tg_user_id = u.tg_user_id
                            => /\ v.id = u.id
                               /\ v.phone = u.phone
                               /\ v.created_at = u.created_at
                  ELSE u \in users'
            /\ (\E u \in users : u.tg_user_id = loc'[p].a)
                  => Cardinality(users') = Cardinality(users)
            /\ slots' = slots
            /\ bookings' = bookings
            /\ seqSlots' = seqSlots
            /\ seqBookings' = seqBookings]_vars

\* the newcomer shared a contact, and a later /start from another chat,
\* after time has passed, changed the chat of the row: the phone, the id
\* and the creation time stayed
C28_Witness ==
    \E p \in Procs, u \in users :
        /\ pc[p] = "uu_select"
        /\ loc[p].h = "start"
        /\ loc[p].a = 102
        /\ loc[p].pre = u.id
        /\ u.tg_user_id = 102
        /\ u.phone = 7
        /\ u.chat_id = 900
        /\ u.created_at < clock

(***************************************************************************)
(* Properties of the telephone numbers of clients (SpecStore).             *)
(***************************************************************************)
\* C29: every booking belongs to a user with a phone number on record; a
\* claim by a user without one ends at once and writes nothing, a claim
\* that goes on to create_booking is by a user with one, and no step takes
\* a stored phone number away.
C29_BookingUserHasPhone ==
    /\ [](\A b \in bookings :
            \E u \in users : u.id = b.user_id /\ u.phone # NULL)
    /\ [][\A p \in Procs :
            /\ (pc[p] = "idle" /\ res'[p] # res[p] /\ res'[p].out = "nophone")
                 => (pc'[p] = "idle" /\ bookings' = bookings)
            /\ (pc[p] = "idle" /\ pc'[p] = "cb_insert")
                 => \E u \in users : u.id = loc'[p].u /\ u.phone # NULL]_vars
    /\ [][\A u \in users :
            u.phone # NULL => \E v \in users' : v.id = u.id /\ v.phone # NULL]_vars

\* the newcomer has a row without a phone number after /start, a slot is
\* free, and the newcomer's claim was turned away; the only booking is the
\* one of the user with a phone number
C29_Witness ==
    /\ res[1].h = "confirm"
    /\ res[1].out = "nophone"
    /\ \E u \in users : u.tg_user_id = 102 /\ u.phone = NULL
    /\ Cardinality(bookings) = 1
    /\ \E s \in slots : \A b \in bookings : b.slot_id # s.id

(***************************************************************************)
(* Properties of the id lookup after an insert (Spec).                     *)
(***************************************************************************)
\* C30: an add_slot or create_booking call whose insert was committed
\* returns the id of its row: it does not end in the error of an id lookup
\* that found no row.
C30_CommittedInsertReturnsId ==
    \A p \in Procs :
        ((res[p].h = "addslot" /\ res[p].pre = 0) \/ res[p].h = "confirm")
          => res[p].exc # "TypeError"

(***************************************************************************)
(* Properties of the slots offered and claimed as time passes              *)
(* (SpecListing).                                                          *)
(***************************************************************************)
\* C31: only slots that have not started are offered and claimed: every
\* slot list_times_keyboard lists for a date starts at or after now, and
\* every booking was created at or before the start of its slot.
C31_OnlyFutureSlots ==
    /\ \A D \in DateInputs :
          LET r == list_times_keyboard(D) IN
            r.text = "times"
              => \A k \in 1 .. Len(r.pairs) :
                    RowById(slots, r.pairs[k][1]).slot_utc >= clock
    /\ \A b \in bookings :
          b.slot_id \in SlotIds(slots)
            => RowById(slots, b.slot_id).slot_utc >= b.created_at

\* the second half alone: no booking was created after its slot's start
C31_NoBookingOfStartedSlot ==
    \A b \in bookings :
        b.slot_id \in SlotIds(slots)
          => RowById(slots, b.slot_id).slot_utc >= b.created_at

====
